---------------------------- MODULE Spec2Model ----------------------------
(***************************************************************************)
(* Model of RemoteUploadService and NemAnnounceResult                      *)
(* (src/model/nem-announce-resource.ts).                                   *)
(*                                                                         *)
(* JavaScript runs the service on one thread: every action below is one    *)
(* synchronous call of the caller or one callback of an observable chain.  *)
(* Strings are sequences of character codes.  A JavaScript value is a cell *)
(* [tag, v]: null, undefined, or a string with its characters.             *)
(***************************************************************************)
EXTENDS Integers, Sequences, FiniteSets, TLC

\* Bounds of the model.
MaxCalls == 2      \* calls of public operations the caller makes

---------------------------------------------------------------------------
\* JavaScript values

NULL == [tag |-> "null", v |-> <<>>]
UNDEF == [tag |-> "undefined", v |-> <<>>]
Str(s) == [tag |-> "string", v |-> s]

---------------------------------------------------------------------------
\* base64 (btoa of the browser, decode of typescript-base64-arraybuffer)

\* The character code of the base64 digit i: A-Z a-z 0-9 + /
B64Char(i) ==
    IF i < 26 THEN 65 + i
    ELSE IF i < 52 THEN 97 + (i - 26)
    ELSE IF i < 62 THEN 48 + (i - 52)
    ELSE IF i = 62 THEN 43 ELSE 47

PadChar == 61

IsB64Char(c) ==
    \/ c \in 65..90
    \/ c \in 97..122
    \/ c \in 48..57
    \/ c \in {43, 47}

\* The base64 digit of a character code (inverse of B64Char)
B64Index(c) ==
    IF c \in 65..90 THEN c - 65
    ELSE IF c \in 97..122 THEN c - 97 + 26
    ELSE IF c \in 48..57 THEN c - 48 + 52
    ELSE IF c = 43 THEN 62 ELSE 63

RECURSIVE EncodeBytes(_)
EncodeBytes(s) ==
    IF s = <<>> THEN <<>>
    ELSE LET n == Len(s)
             b1 == s[1]
             b2 == IF n >= 2 THEN s[2] ELSE 0
             b3 == IF n >= 3 THEN s[3] ELSE 0
             group == << B64Char(b1 \div 4),
                         B64Char((b1 % 4) * 16 + (b2 \div 16)),
                         IF n >= 2 THEN B64Char((b2 % 16) * 4 + (b3 \div 64))
                                   ELSE PadChar,
                         IF n >= 3 THEN B64Char(b3 % 64) ELSE PadChar >>
         IN  group \o (IF n > 3 THEN EncodeBytes(SubSeq(s, 4, n)) ELSE <<>>)

\* btoa(text): throws InvalidCharacterError for a character outside Latin1
BtoaThrows(s) == \E i \in 1..Len(s) : s[i] > 255
btoa(s) == EncodeBytes(s)

RECURSIVE DecodeChars(_)
DecodeChars(cs) ==
    IF cs = <<>> THEN <<>>
    ELSE LET n == Len(cs)
             i1 == B64Index(cs[1])
             i2 == B64Index(cs[2])
             pad3 == cs[3] = PadChar
             pad4 == cs[4] = PadChar
             i3 == IF pad3 THEN 0 ELSE B64Index(cs[3])
             i4 == IF pad4 THEN 0 ELSE B64Index(cs[4])
             b1 == i1 * 4 + (i2 \div 16)
             b2 == (i2 % 16) * 16 + (i3 \div 4)
             b3 == (i3 % 4) * 64 + i4
             bytes == IF pad3 THEN <<b1>>
                      ELSE IF pad4 THEN <<b1, b2>> ELSE <<b1, b2, b3>>
         IN  bytes \o (IF n > 4 THEN DecodeChars(SubSeq(cs, 5, n)) ELSE <<>>)

\* A well-formed base64 text: groups of four digits, padding only at the end
WellFormedB64(cs) ==
    /\ Len(cs) % 4 = 0
    /\ \A i \in 1..Len(cs) :
          \/ IsB64Char(cs[i])
          \/ /\ cs[i] = PadChar
             /\ i >= Len(cs) - 1
             /\ (i = Len(cs) - 1 => cs[Len(cs)] = PadChar)

\* decode(res.body): the bytes of a base64 body; fails on a body that is no
\* string or no base64 text
decode(body) ==
    IF body.tag # "string" \/ ~WellFormedB64(body.v)
    THEN [ok |-> FALSE, bytes |-> <<>>]
    ELSE [ok |-> TRUE, bytes |-> DecodeChars(body.v)]

---------------------------------------------------------------------------
\* ResourceHashMessage: the binary-schema record of the gateway's response.
\* The record is one length byte followed by the bytes of the hash.

SchemaEncode(hash) == <<Len(hash)>> \o hash

\* ResourceHashMessage.getRootAsResourceHashMessage(new ByteBuffer(data))
getRootAsResourceHashMessage(bytes) ==
    IF Len(bytes) >= 1 /\ bytes[1] = Len(bytes) - 1
    THEN [ok |-> TRUE, hash |-> Tail(bytes)]
    ELSE [ok |-> FALSE, hash |-> <<>>]

\* The hashes the gateway answers with: "Q" and "Qm"
Hashes == { <<81>>, <<81, 109>> }

\* The body of a successful response carrying hash h
GoodBody(h) == Str(EncodeBytes(SchemaEncode(h)))

\* Bodies the transport can deliver with a 2xx status: the two well-formed
\* ones, "!!!!" (no base64), base64 of bytes that are no record, and no body
BadBodies ==
    { Str(<<33, 33, 33, 33>>), Str(EncodeBytes(<<5, 81>>)), NULL }

UploadBodies == { GoodBody(h) : h \in Hashes } \cup BadBodies

---------------------------------------------------------------------------
\* Errors

NoError == [name |-> "", message |-> ""]
Error(message) == [name |-> "Error", message |-> message]
TypeError == [name |-> "TypeError", message |-> "Cannot read property of undefined"]
InvalidCharacterError == [name |-> "InvalidCharacterError", message |-> "btoa"]

PayloadNullError == Error("The request payload could not be null")
TextRequiredError == Error("The request payload 'text' field is required")
DataRequiredError == Error("The request payload 'data' field is required")
MetadataError == Error("The request payload 'metadata' field must be a valid JSON")

\* The errors the service throws itself for a request it rejects
ValidationErrors ==
    { PayloadNullError, TextRequiredError, DataRequiredError, MetadataError }

---------------------------------------------------------------------------
\* Request records

ABSENT == [tag |-> "absent", v |-> <<>>]
REF == [tag |-> "object", v |-> <<>>]      \* a reference to the caller's record
Bytes(s) == [tag |-> "bytes", v |-> s]

\* Metadata texts: "{}" is JSON, "{" is not
ValidJSONTexts == { <<123, 125>> }
Metadatas == { Str(<<123, 125>>), Str(<<123>>) }

\* Helpers.isJSONString(str)
isJSONString(str) == str.tag = "string" /\ str.v \in ValidJSONTexts

\* Texts a caller puts in an UploadTextRequest: absent ones, "", "hi", and
\* one with a character outside Latin1
Texts == { NULL, UNDEF, Str(<<>>), Str(<<104, 105>>), Str(<<8364>>) }

\* Data a caller puts in an UploadBinaryRequest
Datas == { NULL, UNDEF, Bytes(<<1, 2>>) }

Fields ==
    { "text", "data", "metadata", "senderPrivateKey", "recieverPublicKey",
      "messageType" }

UploadTextRequest(text, metadata) ==
    [ kind |-> "text", text |-> text, data |-> ABSENT, metadata |-> metadata,
      senderPrivateKey |-> Str(<<112, 118>>),
      recieverPublicKey |-> Str(<<112, 98>>),
      messageType |-> Str(<<80>>) ]

UploadBinaryRequest(data, metadata) ==
    [ kind |-> "binary", text |-> ABSENT, data |-> data, metadata |-> metadata,
      senderPrivateKey |-> Str(<<112, 118>>),
      recieverPublicKey |-> Str(<<112, 98>>),
      messageType |-> Str(<<83>>) ]

Requests ==
    { UploadTextRequest(t, m) : t \in Texts, m \in Metadatas }
      \cup { UploadBinaryRequest(d, m) : d \in Datas, m \in Metadatas }

\* JSON.stringify(payload): a field whose value is undefined is left out
JSONstringify(payload) ==
    [ f \in Fields |->
        IF payload[f].tag = "undefined" THEN ABSENT ELSE payload[f] ]

NoBody == [ f \in Fields |-> ABSENT ]

---------------------------------------------------------------------------
\* The synchronous part of the operations: what runs when the caller calls

\* The checks of uploadTextToIPFS without the one of the metadata
ValidateText_noMetadata(arg, req) ==
    IF arg = NULL THEN PayloadNullError
    ELSE IF arg = UNDEF THEN TypeError
    ELSE IF req.text = NULL \/ req.text = UNDEF \/ req.text = Str(<<>>)
         THEN TextRequiredError
    ELSE NoError

\* The checks of uploadTextToIPFS: the error thrown, or NoError
ValidateText(arg, req) ==
    IF arg = NULL THEN PayloadNullError
    ELSE IF arg = UNDEF THEN TypeError              \* payload.text of undefined
    ELSE IF req.text = NULL \/ req.text = UNDEF \/ req.text = Str(<<>>)
         THEN TextRequiredError
    ELSE IF ~isJSONString(req.metadata) THEN MetadataError
    ELSE NoError

\* The checks of uploadBinaryToIPFS: the error thrown, or NoError
ValidateBinary(arg, req) ==
    IF arg = NULL THEN PayloadNullError
    ELSE IF arg = UNDEF THEN TypeError              \* payload.data of undefined
    ELSE IF req.data = NULL THEN DataRequiredError
    ELSE IF ~isJSONString(req.metadata) THEN MetadataError
    ELSE NoError

Thrown(err, req) ==
    [threw |-> TRUE, err |-> err, request |-> req, bodyData |-> NoBody]

Returned(req, bodyData) ==
    [threw |-> FALSE, err |-> NoError, request |-> req, bodyData |-> bodyData]

\* uploadTextToIPFS up to the return of the observable: the checks, the
\* encoding of payload.text into the caller's record, the body of the POST
uploadTextToIPFS(arg, req) ==
    LET err == ValidateText(arg, req)
    IN  IF err # NoError THEN Thrown(err, req)
        ELSE IF BtoaThrows(req.text.v) THEN Thrown(InvalidCharacterError, req)
        ELSE LET encodedData == Str(btoa(req.text.v))
                 payload == [req EXCEPT !.text = encodedData]
             IN  Returned(payload, JSONstringify(payload))

\* uploadBinaryToIPFS up to the return of the observable
uploadBinaryToIPFS(arg, req) ==
    LET err == ValidateBinary(arg, req)
    IN  IF err # NoError THEN Thrown(err, req)
        ELSE Returned(req, JSONstringify(req))

TextOps == { "uploadText", "uploadTextToIFPSOnly" }
BinaryOps == { "uploadBinary", "uploadBinaryToIPFSOnly" }
Ops == TextOps \cup BinaryOps

\* The returnHash flag the public operation passes to the private one
returnHash(op) == op \in { "uploadTextToIFPSOnly", "uploadBinaryToIPFSOnly" }

\* Every operation pipes the upload into switchMap(sign, announce)
SignsAndAnnounces_all(op) == TRUE

\* The operations that pipe the upload into switchMap(sign, announce)
SignsAndAnnounces(op) == op \in { "uploadText", "uploadBinary" }

\* The synchronous part of public operation op
CallOp(op, arg, req) ==
    IF op \in TextOps THEN uploadTextToIPFS(arg, req)
    ELSE uploadBinaryToIPFS(arg, req)

\* The arguments a caller passes: no record, or the record it built
Args == { NULL, UNDEF, REF }

\* The operations that take a request of this class
OpsOf(req) == IF req.kind = "text" THEN TextOps ELSE BinaryOps

---------------------------------------------------------------------------
\* NemAnnounceResult

\* enum TypeNemAnnounceResult
TypeNemAnnounceResult == [Validation |-> 1, HeartBeat |-> 2, Status |-> 4]

TypeValues == { TypeNemAnnounceResult[n] : n \in DOMAIN TypeNemAnnounceResult }

\* type CodeNemAnnounceResult
CodeNemAnnounceResult == 0..19

\* The codes the documentation of CodeNemAnnounceResult lists for a type:
\* the validation results, the heart beat, and the status codes (the third
\* list of the comment, the one of the status type)
DocumentedCodes(type) ==
    IF type = TypeNemAnnounceResult.Validation THEN 0..19
    ELSE IF type = TypeNemAnnounceResult.HeartBeat THEN {1}
    ELSE 0..8

\* A constructor that takes the two hashes for each other
NemAnnounceResult_swapped(type, code, message, transactionHash, innerTransactionHash) ==
    [ type |-> type, code |-> code, message |-> message,
      transactionHash |-> innerTransactionHash,
      innerTransactionHash |-> transactionHash ]

\* new NemAnnounceResult(type, code, message, transactionHash, innerTransactionHash)
NemAnnounceResult(type, code, message, transactionHash, innerTransactionHash) ==
    [ type |-> type, code |-> code, message |-> message,
      transactionHash |-> transactionHash,
      innerTransactionHash |-> innerTransactionHash ]

NoResult == NemAnnounceResult(0, 0, <<>>, <<>>, <<>>)

\* The results the announce step delivers in the upload model: a success and
\* "hash already known"
AnnounceResults ==
    { NemAnnounceResult(TypeNemAnnounceResult.Validation, c, <<79, 75>>,
                        <<170>>, <<187>>) : c \in {1, 7} }

---------------------------------------------------------------------------
\* Collaborators and the callbacks of the observable chains

\* What an observable stage hands on: a value or an error
NoOut ==
    [ kind |-> "none", handled |-> FALSE, what |-> "", body |-> UNDEF,
      hash |-> <<>>, result |-> NoResult ]
Value(what) == [NoOut EXCEPT !.kind = "value", !.what = what]
Failure(what) == [NoOut EXCEPT !.kind = "error", !.what = what]

\* The full response of a 2xx POST (observe: 'response')
HttpResponse(body) == [Value("HttpResponse") EXCEPT !.body = body]

\* Helpers.handleError: returns the error, wrapped, on the error channel
handleError(e) == [e EXCEPT !.kind = "error", !.handled = TRUE]

\* A map(res => ...) that reads the record from the body as it came, with
\* no base64 decoding
MapResponse_noBase64(res) ==
    LET resourceHash ==
          getRootAsResourceHashMessage(IF res.body.tag = "string"
                                       THEN res.body.v ELSE <<>>)
    IN  IF ~resourceHash.ok THEN [NoOut EXCEPT !.kind = "error", !.what = "DecodeError"]
        ELSE [NoOut EXCEPT !.kind = "value", !.what = "ResourceHashMessage",
                           !.hash = resourceHash.hash]

\* map(res => ...) of the returnHash branch: base64-decode the body and read
\* the record; a decoder that fails throws
MapResponse(res) ==
    LET data == decode(res.body)
        resourceHash == getRootAsResourceHashMessage(data.bytes)
    IN  IF ~data.ok THEN Failure("DecodeError")
        ELSE IF ~resourceHash.ok THEN Failure("DecodeError")
        ELSE [Value("ResourceHashMessage") EXCEPT !.hash = resourceHash.hash]

\* What upload{Text,Binary}ToIPFS(payload, returnHash) emits for a response
EmitResponse(op, res) ==
    IF returnHash(op)
    THEN LET m == MapResponse(res)
         IN  IF m.kind = "error" THEN handleError(m) ELSE m
    ELSE res

\* What upload{Text,Binary}ToIPFS(payload, returnHash) emits for a transport
\* failure: only the returnHash branch pipes catchError(Helpers.handleError)
EmitError(op, e) ==
    IF returnHash(op) THEN handleError(e) ELSE e

\* A callback that passes the two keys in each other's place
SignArgs_swappedKeys(rhm, payload) ==
    [ content |-> rhm.body,
      senderPrivateKey |-> payload.recieverPublicKey,
      recieverPublicKey |-> payload.senderPrivateKey,
      messageType |-> payload.messageType ]

\* The arguments of announceService.signTransaction in the switchMap callback
SignArgs(rhm, payload) ==
    [ content |-> rhm.body,
      senderPrivateKey |-> payload.senderPrivateKey,
      recieverPublicKey |-> payload.recieverPublicKey,
      messageType |-> payload.messageType ]

NoSignArgs ==
    [ content |-> UNDEF, senderPrivateKey |-> UNDEF,
      recieverPublicKey |-> UNDEF, messageType |-> UNDEF ]

\* signTransaction: the signed transaction embeds what was signed
SignedTransaction(args) == [signed |-> TRUE, of |-> args]
NoTransaction == [signed |-> FALSE, of |-> NoSignArgs]

\* The events of one subscription, in the order they happen
\*   "post": the upload POST is sent      "abort": the POST is aborted
\*   "sign": signTransaction is called    "announce": announceTransaction is
\*   called                               "cancel": the announce is unsubscribed
IdleSub ==
    [ phase |-> "idle", unsubscribed |-> FALSE, log |-> <<>>,
      resp |-> UNDEF, failed |-> FALSE, signArgs |-> NoSignArgs,
      announced |-> NoTransaction, emitted |-> NoResult, out |-> NoOut ]

\* The subscriber gets a value and the completion, or an error
Deliver(su, o) ==
    [su EXCEPT !.phase = IF o.kind = "value" THEN "complete" ELSE "error",
               !.out = o]

\* switchMap(rhm => announceTransaction(signTransaction(rhm.body, ...))):
\* the callback runs for every value of the upload; signTransaction may throw
SwitchMap(su, rhm, payload, signThrows) ==
    LET args == SignArgs(rhm, payload)
    IN  IF signThrows
        THEN [Deliver(su, Failure("SignError")) EXCEPT
                 !.log = su.log \o <<"sign">>, !.signArgs = args]
        ELSE [su EXCEPT !.phase = "announcing",
                        !.log = su.log \o <<"sign", "announce">>,
                        !.signArgs = args,
                        !.announced = SignedTransaction(args)]

\* A chain whose switchMap callback also runs for an error of the upload
Pipe_onError(op, su, e, payload, signThrows) ==
    IF SignsAndAnnounces(op)
    THEN SwitchMap(su, e, payload, signThrows)
    ELSE Deliver(su, e)

\* The chain of operation op on an emission e of the upload stage
Pipe(op, su, e, payload, signThrows) ==
    IF SignsAndAnnounces(op) /\ e.kind = "value"
    THEN SwitchMap(su, e, payload, signThrows)
    ELSE Deliver(su, e)

\* An unsubscription that reaches the POST only: an announce that is
\* pending goes on and delivers
Unsubscribed_outerOnly(su) ==
    IF su.phase = "posting"
    THEN [su EXCEPT !.phase = "unsubscribed", !.unsubscribed = TRUE,
                    !.log = su.log \o <<"abort">>]
    ELSE [su EXCEPT !.unsubscribed = TRUE]

\* Unsubscribing tears the whole chain down: a pending POST is aborted, a
\* pending announce is unsubscribed, nothing more reaches the subscriber
Unsubscribed(su) ==
    [su EXCEPT !.phase = "unsubscribed", !.unsubscribed = TRUE,
               !.log = su.log \o
                  (IF su.phase = "posting" THEN <<"abort">> ELSE <<"cancel">>)]

---------------------------------------------------------------------------
\* State

VARIABLES
    request,     \* the caller's request record, as it is now
    request0,    \* the request record as the caller built it
    obs,         \* per call: the operation, its argument, the error thrown or
                 \* the body of the POST of the observable returned
    sub,         \* per call: the subscription to the observable it returned,
                 \* where its chain is, what it delivered
    made         \* the last NemAnnounceResult constructed, with its arguments

vars == <<request, request0, obs, sub, made>>

Calls == 1..MaxCalls

NoCall ==
    [ op |-> "none", arg |-> UNDEF, state |-> "none", err |-> NoError,
      bodyData |-> NoBody ]

NoMade == [ args |-> <<>>, result |-> NoResult ]

Init ==
    /\ request \in Requests
    /\ request0 = request
    /\ obs = [c \in Calls |-> NoCall]
    /\ sub = [c \in Calls |-> IdleSub]
    /\ made = NoMade

\* The record the payload argument of call c refers to, as it is now
PayloadOf(c) == request

---------------------------------------------------------------------------
\* Actions

\* The caller calls a public operation: its synchronous part runs, and
\* throws or returns an observable
Call(c, op, arg) ==
    /\ obs[c].state = "none"
    /\ IF c = 1 THEN TRUE ELSE obs[c - 1].state # "none"
    /\ op \in OpsOf(request)
    /\ LET r == CallOp(op, arg, request)
       IN  /\ request' = r.request
           /\ obs' = [obs EXCEPT ![c] =
                        [ op |-> op, arg |-> arg,
                          state |-> IF r.threw THEN "thrown" ELSE "cold",
                          err |-> r.err, bodyData |-> r.bodyData ]]
    /\ UNCHANGED <<request0, sub, made>>

\* The caller subscribes to the observable call c returned: the POST is
\* sent.  An observable is subscribed again only once its last subscription
\* has ended.
Subscribe(c) ==
    /\ obs[c].state = "cold"
    /\ sub[c].phase \in {"idle", "complete", "error", "unsubscribed"}
    /\ sub' = [sub EXCEPT ![c] =
                 [IdleSub EXCEPT !.phase = "posting", !.log = <<"post">>]]
    /\ UNCHANGED <<request, request0, obs, made>>

\* The POST is answered with a 2xx status and a body
UploadResponse(s, signThrows) ==
    /\ sub[s].phase = "posting"
    /\ \E body \in UploadBodies :
          LET op == obs[s].op
              su == [sub[s] EXCEPT !.resp = body]
              e == EmitResponse(op, HttpResponse(body))
          IN  sub' = [sub EXCEPT ![s] =
                        Pipe(op, su, e, PayloadOf(s), signThrows)]
    /\ UNCHANGED <<request, request0, obs, made>>

\* The POST fails in transport (no connection, a status that is not 2xx)
UploadError(s) ==
    /\ sub[s].phase = "posting"
    /\ LET op == obs[s].op
           su == [sub[s] EXCEPT !.failed = TRUE]
           e == EmitError(op, Failure("HttpErrorResponse"))
       IN  sub' = [sub EXCEPT ![s] =
                     Pipe(op, su, e, PayloadOf(s), FALSE)]
    /\ UNCHANGED <<request, request0, obs, made>>

\* The announce delivers its NemAnnounceResult
AnnounceNext(s, r) ==
    /\ sub[s].phase = "announcing"
    /\ sub' = [sub EXCEPT ![s] =
                 Deliver([sub[s] EXCEPT !.emitted = r],
                         [Value("NemAnnounceResult") EXCEPT !.result = r])]
    /\ UNCHANGED <<request, request0, obs, made>>

\* The announce fails
AnnounceError(s) ==
    /\ sub[s].phase = "announcing"
    /\ sub' = [sub EXCEPT ![s] = Deliver(sub[s], Failure("AnnounceError"))]
    /\ UNCHANGED <<request, request0, obs, made>>

\* The caller unsubscribes before the chain has ended
Unsubscribe(s) ==
    /\ sub[s].phase \in {"posting", "announcing"}
    /\ sub' = [sub EXCEPT ![s] = Unsubscribed(sub[s])]
    /\ UNCHANGED <<request, request0, obs, made>>

Next ==
    \/ \E c \in Calls, op \in Ops, arg \in Args : Call(c, op, arg)
    \/ \E c \in Calls : Subscribe(c)
    \/ \E s \in Calls, signThrows \in BOOLEAN : UploadResponse(s, signThrows)
    \/ \E s \in Calls : UploadError(s)
    \/ \E s \in Calls, r \in AnnounceResults : AnnounceNext(s, r)
    \/ \E s \in Calls : AnnounceError(s)
    \/ \E s \in Calls : Unsubscribe(s)

Spec == Init /\ [][Next]_vars

---------------------------------------------------------------------------
\* NemAnnounceResult on its own: every pair of a type and one of its
\* documented codes is constructed

Messages == { <<>>, <<79, 75>> }
NemHashes == { <<170>>, <<187>> }

Construct(type, code, message, transactionHash, innerTransactionHash) ==
    /\ made' =
         [ args |-> <<type, code, message, transactionHash, innerTransactionHash>>,
           result |-> NemAnnounceResult(type, code, message, transactionHash,
                                        innerTransactionHash) ]
    /\ UNCHANGED <<request, request0, obs, sub>>

InitResult ==
    /\ request = UploadTextRequest(Str(<<104, 105>>), Str(<<123, 125>>))
    /\ request0 = request
    /\ obs = [c \in Calls |-> NoCall]
    /\ sub = [c \in Calls |-> IdleSub]
    /\ made = NoMade

NextResult ==
    \E type \in TypeValues, code \in CodeNemAnnounceResult,
       message \in Messages, th \in NemHashes, ith \in NemHashes :
       /\ code \in DocumentedCodes(type)
       /\ Construct(type, code, message, th, ith)

SpecResult == InitResult /\ [][NextResult]_vars

---------------------------------------------------------------------------
\* Properties

Called(c) == obs[c].state # "none"
Responded(su) == su.resp # UNDEF
Has(log, ev) == \E i \in 1..Len(log) : log[i] = ev

\* C1: in every subscription to uploadText or uploadBinary the collaborators
\* are invoked in the order POST, signTransaction, announceTransaction: a
\* sign comes only after the POST has been answered with success, an
\* announce only right after its sign, a successful answer is always
\* followed by the sign (and by the announce, unless the sign threw), and
\* after a failed upload neither is invoked.
C1_UploadSignAnnounceOrder ==
    \A c \in Calls :
       SignsAndAnnounces(obs[c].op) =>
          LET su == sub[c]
              log == su.log
          IN  /\ log # <<>> => log[1] = "post"
              /\ \A i \in 1..Len(log) :
                    /\ log[i] = "post" => i = 1
                    /\ log[i] = "sign" => i = 2 /\ Responded(su) /\ ~su.failed
                    /\ log[i] = "announce" => i = 3 /\ log[2] = "sign"
              /\ Responded(su) => Len(log) >= 2 /\ log[2] = "sign"
              /\ Responded(su) /\ su.out.what # "SignError"
                    => Len(log) >= 3 /\ log[3] = "announce"
              /\ su.failed => ~Has(log, "sign") /\ ~Has(log, "announce")
              /\ su.phase = "posting" => log = <<"post">>

C1_Witness ==
    \E c \in Calls :
       /\ SignsAndAnnounces(obs[c].op)
       /\ sub[c].log = <<"post", "sign", "announce">>
       /\ sub[c].phase = "complete"
       /\ sub[c].out.what = "NemAnnounceResult"

\* C2: uploadTextToIFPSOnly and uploadBinaryToIPFSOnly never invoke
\* signTransaction or announceTransaction, whatever the upload's outcome.
C2_OnlyNeverSignsOrAnnounces ==
    \A c \in Calls :
       returnHash(obs[c].op) =>
          /\ ~Has(sub[c].log, "sign")
          /\ ~Has(sub[c].log, "announce")
          /\ sub[c].phase # "announcing"
          /\ sub[c].signArgs = NoSignArgs
          /\ sub[c].announced = NoTransaction

C2_Witness ==
    \E c \in Calls :
       /\ returnHash(obs[c].op)
       /\ sub[c].phase = "complete"
       /\ sub[c].out.what = "ResourceHashMessage"

\* The call was made without the payload, or with a record whose text
\* (null, undefined, "") or data (null, undefined) is missing.  Encoding
\* never makes a text appear or disappear, so the record as the caller built
\* it decides.
MissingInput(c) ==
    \/ obs[c].arg \in {NULL, UNDEF}
    \/ /\ obs[c].op \in TextOps
       /\ request0.text \in {NULL, UNDEF, Str(<<>>)}
    \/ /\ obs[c].op \in BinaryOps
       /\ request0.data \in {NULL, UNDEF}

\* C3: a call without the payload, the text or the data throws a validation
\* error, and no POST is ever sent for it.
C3_MissingInputRejected ==
    \A c \in Calls :
       Called(c) /\ MissingInput(c) =>
          /\ obs[c].state = "thrown"
          /\ obs[c].err \in ValidationErrors
          /\ sub[c] = IdleSub

\* C4: a call with a record whose metadata is no JSON text throws a
\* validation error; no POST is sent, nothing is signed or announced, and
\* the record stays as the caller built it.
C4_BadMetadataRejected ==
    \A c \in Calls :
       Called(c) /\ obs[c].arg = REF /\ ~isJSONString(request0.metadata) =>
          /\ obs[c].state = "thrown"
          /\ obs[c].err \in ValidationErrors
          /\ sub[c] = IdleSub
          /\ request = request0

C4_Witness ==
    \E c \in Calls :
       /\ obs[c].arg = REF
       /\ obs[c].state = "thrown"
       /\ obs[c].err = MetadataError

\* C5: a transport failure of the POST reaches the subscriber of every
\* upload operation as an error that went through Helpers.handleError.
C5_TransportErrorHandled ==
    \A c \in Calls :
       sub[c].failed =>
          /\ sub[c].phase = "error"
          /\ sub[c].out.kind = "error"
          /\ sub[c].out.handled

\* C6: calling an operation sends no POST and changes nothing outside the
\* observable it returns.
C6_CallChangesNothing ==
    [][ (\E c \in Calls : ~Called(c) /\ obs'[c].state # "none")
           => request' = request /\ sub' = sub ]_vars

\* C7: an upload-only operation answered with the base64 text of the record
\* of hash h emits the ResourceHashMessage of hash h and completes; answered
\* with a body that cannot be decoded, it emits no value and ends in error.
C7_DecodeRoundTrip ==
    \A c \in Calls :
       returnHash(obs[c].op) /\ Responded(sub[c]) =>
          /\ \A h \in Hashes :
                sub[c].resp = GoodBody(h) =>
                   /\ sub[c].phase = "complete"
                   /\ sub[c].out.kind = "value"
                   /\ sub[c].out.what = "ResourceHashMessage"
                   /\ sub[c].out.hash = h
          /\ sub[c].resp \in BadBodies =>
                /\ sub[c].phase = "error"
                /\ sub[c].out.kind = "error"
                /\ sub[c].out.hash = <<>>

C7_Witness ==
    \E c \in Calls :
       /\ returnHash(obs[c].op)
       /\ sub[c].resp = GoodBody(<<81, 109>>)
       /\ sub[c].out.hash = <<81, 109>>

C9_RequestUnchanged == request = request0

\* C10: after the caller unsubscribed, nothing is delivered; unsubscribed
\* while the POST was pending, the POST is aborted and nothing is signed or
\* announced; unsubscribed while the announce was pending, the announce is
\* cancelled.
C10_UnsubscribeTearsDown ==
    \A c \in Calls :
       sub[c].unsubscribed =>
          /\ sub[c].phase = "unsubscribed"
          /\ sub[c].out = NoOut
          /\ \/ sub[c].log = <<"post", "abort">>
             \/ /\ SignsAndAnnounces(obs[c].op)
                /\ sub[c].log = <<"post", "sign", "announce", "cancel">>

C10_Witness ==
    \E c \in Calls :
       /\ sub[c].unsubscribed
       /\ sub[c].log = <<"post", "sign", "announce", "cancel">>

Count(log, ev) == Cardinality({ i \in 1..Len(log) : log[i] = ev })

C12_BodySentEncodedOnce ==
    \A c \in Calls :
       Has(sub[c].log, "post") =>
          /\ obs[c].op \in TextOps =>
                obs[c].bodyData.text = Str(btoa(request0.text.v))
          /\ obs[c].op \in BinaryOps =>
                obs[c].bodyData.data = JSONstringify(request0).data

===========================================================================
